---- MODULE Spec2Model ----
(***************************************************************************)
(* Routing-table core of nireo/dht: the k-bucket of src/kbucket.rs and    *)
(* the closest-node heap of src/node_heap.rs over the identifiers of       *)
(* src/node.rs.                                                            *)
(*                                                                         *)
(* Scaling.  A NodeId is 20 bytes and the range arithmetic of the bucket   *)
(* is done on the u128 made of its first 16 bytes.  The model keeps the    *)
(* 20 and the 16 and shrinks the byte to one bit, so an identifier is a    *)
(* sequence of 20 digits of Byte, its magnitude a 16-digit big-endian      *)
(* number, and the unsigned type holding it wraps at U128Modulus.          *)
(***************************************************************************)
EXTENDS Integers, Sequences, FiniteSets, TLC

\* ------------------------------------------------------------------ bounds
MaxK == 2
MaxF == 2
MaxLevel == 1
MaxSize == 2

\* --------------------------------------------------------- node.rs: NodeId
IdLen == 20
U128Len == 16
Byte == 0 .. 1
ByteRange == Cardinality(Byte)

RECURSIVE Pow(_, _)
Pow(b, n) == IF n = 0 THEN 1 ELSE b * Pow(b, n - 1)

U128Modulus == Pow(ByteRange, U128Len)
U128Max == U128Modulus - 1

\* The big-endian digits of v, most significant first, on n positions.
RECURSIVE to_be_bytes(_, _)
to_be_bytes(v, n) ==
    IF n = 0 THEN << >>
    ELSE Append(to_be_bytes(v \div ByteRange, n - 1), v % ByteRange)

\* NodeId::new on the bytes whose first U128Len hold hi and whose rest hold lo.
NodeId_new(hi, lo) == to_be_bytes(hi, U128Len) \o to_be_bytes(lo, IdLen - U128Len)

\* u128::from_be_bytes
RECURSIVE from_be_bytes(_)
from_be_bytes(bytes) ==
    IF bytes = << >> THEN 0
    ELSE from_be_bytes(SubSeq(bytes, 1, Len(bytes) - 1)) * ByteRange
         + bytes[Len(bytes)]

\* kbucket.rs node_id_to_u128: the first 16 bytes only, the last 4 are dropped.
node_id_to_u128(node_id) == from_be_bytes(SubSeq(node_id, 1, U128Len))

\* The number of binary digits of v, and of a byte.
RECURSIVE BitLen(_)
BitLen(v) == IF v = 0 THEN 0 ELSE 1 + BitLen(v \div 2)

ByteBits == BitLen(ByteRange - 1)

\* The ^ of two bytes.
RECURSIVE u8_xor(_, _)
u8_xor(x, y) ==
    IF x = 0 /\ y = 0 THEN 0
    ELSE (((x % 2) + (y % 2)) % 2) + 2 * u8_xor(x \div 2, y \div 2)

\* u8::leading_zeros
u8_leading_zeros(byte) == ByteBits - BitLen(byte)

\* A distance that forgets the bits its second argument has and its first
\* has not (a & b for a ^ b, negated on one side).
distance_one_sided(self, other) ==
    [i \in 1 .. IdLen |-> IF self[i] >= other[i] THEN self[i] - other[i] ELSE 0]

\* NodeId::distance: the bytes of self ^ the bytes of other.
distance(self, other) == [i \in 1 .. IdLen |-> u8_xor(self[i], other[i])]

\* The value leading_zeros returns for an identifier without a non-zero
\* byte: 160, the number of bits of an identifier.
IdBits == IdLen * ByteBits

\* NodeId::leading_zeros: the first non-zero byte decides.
RECURSIVE leading_zeros_from(_, _)
leading_zeros_from(self, i) ==
    IF i >= Len(self) THEN IdBits
    ELSE IF self[i + 1] # 0 THEN i * ByteBits + u8_leading_zeros(self[i + 1])
    ELSE leading_zeros_from(self, i + 1)

leading_zeros(self) == leading_zeros_from(self, 0)

\* The derived Ord of NodeId: the bytes compared lexicographically.
RECURSIVE NodeId_lt_from(_, _, _)
NodeId_lt_from(a, b, i) ==
    IF i > Len(a) THEN FALSE
    ELSE IF a[i] # b[i] THEN a[i] < b[i]
    ELSE NodeId_lt_from(a, b, i + 1)

NodeId_lt(a, b) == NodeId_lt_from(a, b, 1)

\* ----------------------------------------------------------- node.rs: Node
None == "None"

Node_new(node_id) == [id |-> node_id, ip |-> None, port |-> None]

Node_with_address(node_id, ip, port) == [id |-> node_id, ip |-> ip, port |-> port]

\* The identifiers the callers hand in: one of magnitude 0 whose dropped low
\* bytes are not zero, two either side of the midpoint of [0, 200], one at
\* the top of the space.
NodeIds ==
    { NodeId_new(0, 1), NodeId_new(100, 0), NodeId_new(101, 0),
      NodeId_new(U128Max, 0) }

AddressedIds == { NodeId_new(101, 0) }

Nodes ==
    { Node_new(i) : i \in NodeIds }
        \cup { Node_with_address(i, "10.0.0.1", 6881) : i \in AddressedIds }

\* ------------------------------------------------- indexmap::IndexMap<K, V>
\* An IndexMap<NodeId, Node> is the sequence of its values in map order; the
\* key of a value is its id.
contains_key(map, node_id) == \E i \in 1 .. Len(map) : map[i].id = node_id

keys(map) == { map[i].id : i \in 1 .. Len(map) }

\* insert: a present key keeps its position and gets the new value, a new
\* key goes last.
insert(map, node) ==
    IF contains_key(map, node.id)
    THEN [i \in 1 .. Len(map) |-> IF map[i].id = node.id THEN node ELSE map[i]]
    ELSE Append(map, node)


\* shift_remove: drops the key, the others keep their order.
shift_remove(map, node_id) == SelectSeq(map, LAMBDA n : n.id # node_id)

\* shift_remove_index(0): drops the first entry, if there is one.
shift_remove_index_0(map) == IF map = << >> THEN map ELSE Tail(map)

\* -------------------------------------------------------- kbucket.rs: KBucket
KBucket_new(range_low, range_upper, ksize, replacement_node_factor) ==
    [ rstart |-> range_low,
      rend |-> range_upper,
      nodes |-> << >>,
      replacement_nodes |-> << >>,
      ksize |-> ksize,
      max_replacement_nodes |-> ksize * replacement_node_factor ]

has_in_range(self, node) ==
    LET idc == node_id_to_u128(node.id)
    IN  self.rstart <= idc /\ idc <= self.rend

is_new_node(self, node) == ~ contains_key(self.nodes, node.id)

\* The trimming loop taking from the newest end instead of the oldest.
RECURSIVE trim_newest_first(_, _)
trim_newest_first(map, max_replacement_nodes) ==
    IF Len(map) > max_replacement_nodes
    THEN trim_newest_first(SubSeq(map, 1, Len(map) - 1), max_replacement_nodes)
    ELSE map

\* The while loop of add_node, lines 112-114.
RECURSIVE trim_replacement_nodes(_, _)
trim_replacement_nodes(map, max_replacement_nodes) ==
    IF Len(map) > max_replacement_nodes
    THEN trim_replacement_nodes(shift_remove_index_0(map), max_replacement_nodes)
    ELSE map

\* add_node with the capacity test off by one (<= for <).
add_node_off_by_one(self, node) ==
    IF contains_key(self.nodes, node.id)
    THEN [ self |-> [self EXCEPT !.nodes = insert(shift_remove(@, node.id), node)],
           ret |-> TRUE ]
    ELSE IF Len(self.nodes) <= self.ksize
    THEN [ self |-> [self EXCEPT !.nodes = insert(@, node)],
           ret |-> TRUE ]
    ELSE [ self |-> [self EXCEPT !.replacement_nodes =
                        trim_replacement_nodes(
                            insert(shift_remove(@, node.id), node),
                            self.max_replacement_nodes)],
           ret |-> FALSE ]

\* add_node turning a peer away when the active set is full.
add_node_rejects_when_full(self, node) ==
    IF contains_key(self.nodes, node.id)
    THEN [ self |-> [self EXCEPT !.nodes = insert(shift_remove(@, node.id), node)],
           ret |-> TRUE ]
    ELSE IF Len(self.nodes) < self.ksize
    THEN [ self |-> [self EXCEPT !.nodes = insert(@, node)],
           ret |-> TRUE ]
    ELSE [ self |-> self, ret |-> FALSE ]

\* add_node without the shift_remove of line 99: an active peer seen again
\* gets the new value where it stands.
add_node_keeps_position(self, node) ==
    IF contains_key(self.nodes, node.id)
    THEN [ self |-> [self EXCEPT !.nodes = insert(@, node)],
           ret |-> TRUE ]
    ELSE IF Len(self.nodes) < self.ksize
    THEN [ self |-> [self EXCEPT !.nodes = insert(@, node)],
           ret |-> TRUE ]
    ELSE [ self |-> [self EXCEPT !.replacement_nodes =
                        trim_replacement_nodes(
                            insert(shift_remove(@, node.id), node),
                            self.max_replacement_nodes)],
           ret |-> FALSE ]

\* add_node: the bucket afterwards and the value returned.
add_node(self, node) ==
    IF contains_key(self.nodes, node.id)
    THEN [ self |-> [self EXCEPT !.nodes = insert(shift_remove(@, node.id), node)],
           ret |-> TRUE ]
    ELSE IF Len(self.nodes) < self.ksize
    THEN [ self |-> [self EXCEPT !.nodes = insert(@, node)],
           ret |-> TRUE ]
    ELSE [ self |-> [self EXCEPT !.replacement_nodes =
                        trim_replacement_nodes(
                            insert(shift_remove(@, node.id), node),
                            self.max_replacement_nodes)],
           ret |-> FALSE ]

\* remove_node promoting a copy of the oldest replacement and leaving the
\* original in the replacement set.
remove_node_keeps_promoted(self, node) ==
    LET replacement == shift_remove(self.replacement_nodes, node.id)
    IN  IF contains_key(self.nodes, node.id)
        THEN IF replacement # << >>
             THEN [self EXCEPT
                     !.nodes = insert(shift_remove(@, node.id), Head(replacement)),
                     !.replacement_nodes = replacement]
             ELSE [self EXCEPT
                     !.nodes = shift_remove(@, node.id),
                     !.replacement_nodes = replacement]
        ELSE [self EXCEPT !.replacement_nodes = replacement]

\* remove_node promoting the newest replacement instead of the oldest.
remove_node_promotes_newest(self, node) ==
    LET replacement == shift_remove(self.replacement_nodes, node.id)
    IN  IF contains_key(self.nodes, node.id)
        THEN IF replacement # << >>
             THEN [self EXCEPT
                     !.nodes = insert(shift_remove(@, node.id),
                                      replacement[Len(replacement)]),
                     !.replacement_nodes =
                         SubSeq(replacement, 1, Len(replacement) - 1)]
             ELSE [self EXCEPT
                     !.nodes = shift_remove(@, node.id),
                     !.replacement_nodes = replacement]
        ELSE [self EXCEPT !.replacement_nodes = replacement]

\* remove_node promoting whenever the peer was found, in either set.
remove_node_always_promotes(self, node) ==
    LET replacement == shift_remove(self.replacement_nodes, node.id)
        found == contains_key(self.nodes, node.id)
                     \/ contains_key(self.replacement_nodes, node.id)
    IN  IF found /\ replacement # << >>
        THEN [self EXCEPT
                !.nodes = insert(shift_remove(@, node.id), Head(replacement)),
                !.replacement_nodes = shift_remove_index_0(replacement)]
        ELSE [self EXCEPT
                !.nodes = shift_remove(@, node.id),
                !.replacement_nodes = replacement]

\* remove_node without the promotion of lines 76-78.
remove_node_no_promotion(self, node) ==
    [self EXCEPT
        !.nodes = shift_remove(@, node.id),
        !.replacement_nodes = shift_remove(@, node.id)]

remove_node(self, node) ==
    LET replacement == shift_remove(self.replacement_nodes, node.id)
    IN  IF contains_key(self.nodes, node.id)
        THEN IF replacement # << >>
             THEN [self EXCEPT
                     !.nodes = insert(shift_remove(@, node.id), Head(replacement)),
                     !.replacement_nodes = shift_remove_index_0(replacement)]
             ELSE [self EXCEPT
                     !.nodes = shift_remove(@, node.id),
                     !.replacement_nodes = replacement]
        ELSE [self EXCEPT !.replacement_nodes = replacement]

\* The loop of split comparing with < where the code has <=.
RECURSIVE split_nodes_strict(_, _, _, _)
split_nodes_strict(all_nodes, midpoint, one, two) ==
    IF all_nodes = << >> THEN [one |-> one, two |-> two]
    ELSE LET node == Head(all_nodes)
         IN  IF node_id_to_u128(node.id) < midpoint
             THEN split_nodes_strict(Tail(all_nodes), midpoint,
                                     add_node(one, node).self, two)
             ELSE split_nodes_strict(Tail(all_nodes), midpoint,
                                     one, add_node(two, node).self)

\* The for loop of split, lines 59-67: every node goes to one or to two by
\* its magnitude against the midpoint.
RECURSIVE split_nodes(_, _, _, _)
split_nodes(all_nodes, midpoint, one, two) ==
    IF all_nodes = << >> THEN [one |-> one, two |-> two]
    ELSE LET node == Head(all_nodes)
         IN  IF node_id_to_u128(node.id) <= midpoint
             THEN split_nodes(Tail(all_nodes), midpoint, add_node(one, node).self, two)
             ELSE split_nodes(Tail(all_nodes), midpoint, one, add_node(two, node).self)

\* split handing on the active peers only.
split_active_only(self, overflow_checks) ==
    LET sum == self.rstart + self.rend
        midpoint == (sum % U128Modulus) \div 2
        next == midpoint + 1
        overflows == sum > U128Max \/ next > U128Max
    IN  IF (overflows /\ overflow_checks) \/ self.ksize = 0
        THEN [panicked |-> TRUE, one |-> self, two |-> self]
        ELSE LET factor == self.max_replacement_nodes \div self.ksize
                 children ==
                     split_nodes(
                         self.nodes,
                         midpoint,
                         KBucket_new(self.rstart, midpoint, self.ksize, factor),
                         KBucket_new(next % U128Modulus, self.rend, self.ksize, factor))
             IN  [panicked |-> FALSE, one |-> children.one, two |-> children.two]

\* split.  u128 addition wraps at U128Modulus in a build without overflow
\* checks and panics in a build with them; the division by ksize panics on
\* zero in either build.
split(self, overflow_checks) ==
    LET sum == self.rstart + self.rend
        midpoint == (sum % U128Modulus) \div 2
        next == midpoint + 1
        overflows == sum > U128Max \/ next > U128Max
    IN  IF (overflows /\ overflow_checks) \/ self.ksize = 0
        THEN [panicked |-> TRUE, one |-> self, two |-> self]
        ELSE LET factor == self.max_replacement_nodes \div self.ksize
                 children ==
                     split_nodes(
                         self.nodes \o self.replacement_nodes,
                         midpoint,
                         KBucket_new(self.rstart, midpoint, self.ksize, factor),
                         KBucket_new(next % U128Modulus, self.rend, self.ksize, factor))
             IN  [panicked |-> FALSE, one |-> children.one, two |-> children.two]

\* ------------------------------------------------------ node_heap.rs: NodeHeap
Node_distance_to(self, other) == distance(self.id, other.id)

HeapEntry_new(distance_, node) == [distance |-> distance_, node |-> node]

\* A BinaryHeap<HeapEntry> is the sequence of its entries in the order they
\* came in.  The order heap.iter() yields them in is not specified by the
\* library, and the code sorts or searches whatever it yields; pop takes a
\* greatest entry, an entry of least distance by the reversed Ord of lines
\* 34-39.
NodeHeap_new(node, max_size) ==
    [node |-> node, heap |-> << >>, contacted |-> {}, max_size |-> max_size]

\* self.distance.cmp(&other.distance) = Less
distance_less(a, b) == NodeId_lt(a.distance, b.distance)

\* The entry at i is one BinaryHeap::pop may take: none is nearer.
is_greatest(heap, i) == \A j \in 1 .. Len(heap) : ~ distance_less(heap[j], heap[i])

\* sort_by(|a, b| a.distance.cmp(&b.distance)): stable, ascending distance.
RECURSIVE sort_by_distance(_)
sort_by_distance(entries) ==
    IF entries = << >> THEN << >>
    ELSE LET n == Len(entries)
             sorted == sort_by_distance(SubSeq(entries, 1, n - 1))
             e == entries[n]
             before == SelectSeq(sorted, LAMBDA x : ~ distance_less(e, x))
             after == SelectSeq(sorted, LAMBDA x : distance_less(e, x))
         IN  before \o << e >> \o after

take(seq, n) == SubSeq(seq, 1, IF Len(seq) < n THEN Len(seq) ELSE n)

\* iter without the sort: the first max_size entries as the heap yields them.
iter_unsorted(self) ==
    LET entries == take(self.heap, self.max_size)
    IN  [i \in 1 .. Len(entries) |-> entries[i].node]

\* iter: the entries sorted by distance, the first max_size of them, their nodes.
iter(self) ==
    LET entries == take(sort_by_distance(self.heap), self.max_size)
    IN  [i \in 1 .. Len(entries) |-> entries[i].node]

to_vec(self) == iter(self)

get_ids(self) == LET nodes == iter(self) IN [i \in 1 .. Len(nodes) |-> nodes[i].id]

\* contains looking among the visible nodes only.
contains_visible_only(self, node) ==
    LET visible == iter(self) IN \E i \in 1 .. Len(visible) : visible[i].id = node.id

contains(self, node) == \E i \in 1 .. Len(self.heap) : self.heap[i].node.id = node.id

\* Option<Node>, the result of get_node and pop_left: no node, or one.
Option_None == << >>

Some(node) == << node >>

get_node(self, node_id) ==
    LET found == SelectSeq(self.heap, LAMBDA entry : entry.node.id = node_id)
    IN  IF found = << >> THEN Option_None ELSE Some(Head(found).node)

len(self) == IF Len(self.heap) < self.max_size THEN Len(self.heap) ELSE self.max_size

actual_size(self) == Len(self.heap)

is_empty(self) == self.heap = << >>

reference_node(self) == self.node

\* get_uncontacted cutting at max_size after the contacted nodes are left out.
get_uncontacted_filter_first(self) ==
    LET entries == SelectSeq(sort_by_distance(self.heap),
                             LAMBDA entry : entry.node.id \notin self.contacted)
        first == take(entries, self.max_size)
    IN  [i \in 1 .. Len(first) |-> first[i].node]

get_uncontacted(self) == SelectSeq(iter(self), LAMBDA node : node.id \notin self.contacted)

have_contacted_all(self) == get_uncontacted(self) = << >>

\* mark_contacted that keeps no record.
mark_contacted_forgets(self, node) == self

mark_contacted(self, node) == [self EXCEPT !.contacted = @ \cup {node.id}]

\* remove rebuilding the heap from the visible entries.
remove_visible_only(self, peers) ==
    IF peers = {} THEN self
    ELSE [self EXCEPT !.heap =
             SelectSeq(take(sort_by_distance(@), self.max_size),
                       LAMBDA entry : entry.node.id \notin peers)]

\* remove: nothing for an empty set, else the heap rebuilt without the peers.
remove(self, peers) ==
    IF peers = {} THEN self
    ELSE [self EXCEPT !.heap = SelectSeq(@, LAMBDA entry : entry.node.id \notin peers)]

\* pop_left forgetting that the node it yields was contacted.
pop_left_forgets_contacted(self, i) ==
    IF self.heap = << >> THEN [self |-> self, ret |-> Option_None]
    ELSE [ self |-> [self EXCEPT !.heap =
                        SubSeq(@, 1, i - 1) \o SubSeq(@, i + 1, Len(@)),
                                 !.contacted = @ \ {self.heap[i].node.id}],
           ret |-> Some(self.heap[i].node) ]

\* pop_left taking the entry that came in first.
pop_left_oldest(self, i) ==
    IF self.heap = << >> THEN [self |-> self, ret |-> Option_None]
    ELSE [ self |-> [self EXCEPT !.heap = Tail(@)], ret |-> Some(Head(self.heap).node) ]

\* pop_left taking the entry at i, one of the greatest; None on an empty heap.
pop_left(self, i) ==
    IF self.heap = << >> THEN [self |-> self, ret |-> Option_None]
    ELSE [ self |-> [self EXCEPT !.heap =
                        SubSeq(@, 1, i - 1) \o SubSeq(@, i + 1, Len(@))],
           ret |-> Some(self.heap[i].node) ]

\* push looking for the id among the visible nodes only.
RECURSIVE push_checks_visible_only(_, _)
push_checks_visible_only(self, nodes) ==
    IF nodes = << >> THEN self
    ELSE LET node == Head(nodes)
             visible == iter(self)
             seen == \E i \in 1 .. Len(visible) : visible[i].id = node.id
             next == IF ~ seen
                     THEN [self EXCEPT !.heap =
                              Append(@, HeapEntry_new(Node_distance_to(self.node, node),
                                                      node))]
                     ELSE self
         IN  push_checks_visible_only(next, Tail(nodes))

\* push: every node of the batch in turn, unless the heap, as it is by
\* then, contains its id.
RECURSIVE push(_, _)
push(self, nodes) ==
    IF nodes = << >> THEN self
    ELSE LET node == Head(nodes)
             next == IF ~ contains(self, node)
                     THEN [self EXCEPT !.heap =
                              Append(@, HeapEntry_new(Node_distance_to(self.node, node),
                                                      node))]
                     ELSE self
         IN  push(next, Tail(nodes))

push_one(self, node) == push(self, << node >>)

clear(self) == [self EXCEPT !.heap = << >>, !.contacted = {}]

\* ------------------------------------------------------------------- state
VARIABLES
    config,   \* the arguments KBucket::new was called with
    bucket,   \* the KBucket the caller holds
    last,     \* the call made last: its argument, the bucket before, its result
    level,    \* how many times the caller went on with a child of a split
    id_call,  \* the NodeId method called last: its arguments and its result
    node_heap,  \* the NodeHeap of a lookup
    heap_call,  \* the NodeHeap method called last: arguments, heap before, result
    lookup      \* the lookup loop driving the heap: where it is, its mark_contacted calls

\* The node recorded for a call that takes none.
NoNode == Node_new(NodeId_new(0, 0))

bucket_vars == << config, bucket, last, level >>

id_vars == << id_call >>

heap_vars == << node_heap, heap_call, lookup >>

vars == << bucket_vars, id_vars, heap_vars >>

\* The reference node heaps are created with, and the nodes handed to them:
\* two identifiers that differ in the last four bytes only, one of them also
\* with an address, and one far from both that is the nearest to the
\* reference.
HeapReferences == { Node_new(NodeId_new(101, 0)) }

HeapNodeIds == { NodeId_new(0, 1), NodeId_new(0, 2), NodeId_new(100, 0) }

HeapNodes ==
    { Node_new(i) : i \in HeapNodeIds }
        \cup { Node_with_address(NodeId_new(0, 2), "10.0.0.1", 6881) }

\* The batches handed to push: no node, one node, or two nodes, which may
\* be the same node or two nodes of one id.
Batches ==
    { << >> } \cup { << x >> : x \in HeapNodes }
        \cup { << x, y >> : x \in HeapNodes, y \in HeapNodes }

\* prior: what the call before returned, when this call and the call before
\* are both pop_left; Option_None otherwise.
HeapCall(op, pre, nodes, peers, ret, prior) ==
    [ op |-> op, pre |-> pre, nodes |-> nodes, peers |-> peers, ret |-> ret,
      prior |-> prior ]

\* The heap of the other specifications, created and left alone.
NoLookup == [pc |-> "none", marks |-> 0]

HeapIdle ==
    /\ lookup = NoLookup
    /\ node_heap = NodeHeap_new(NoNode, 0)
    /\ heap_call = HeapCall("new", node_heap, << >>, {}, Option_None, Option_None)

\* No NodeId method called yet.
NoIdCall == [op |-> "none", self |-> << >>, other |-> << >>, ret |-> << >>]

Call(op, node, pre, ret, result) ==
    [ op |-> op, node |-> node, pre |-> pre, ret |-> ret,
      panicked |-> result.panicked, one |-> result.one, two |-> result.two ]

NoSplit(pre) == [panicked |-> FALSE, one |-> pre, two |-> pre]

\* The ranges buckets are created with: the whole space, and [0, 200].
Ranges == { << 0, U128Max >>, << 0, 200 >> }

\* A bucket is created with a capacity of 1 or more (one of capacity 0 holds
\* nothing, and its split divides by zero) and a replacement factor of 0 or
\* more.
Init ==
    \E r \in Ranges, ksize \in 1 .. MaxK, factor \in 0 .. MaxF :
        /\ config = [ range_low |-> r[1], range_upper |-> r[2],
                      ksize |-> ksize, replacement_node_factor |-> factor ]
        /\ bucket = KBucket_new(r[1], r[2], ksize, factor)
        /\ last = Call("new", NoNode, bucket, TRUE, NoSplit(bucket))
        /\ level = 0
        /\ id_call = NoIdCall
        /\ HeapIdle

AddNode(node) ==
    LET r == add_node(bucket, node)
    IN  /\ bucket' = r.self
        /\ last' = Call("add_node", node, bucket, r.ret, NoSplit(bucket))
        /\ UNCHANGED << config, level, id_vars, heap_vars >>

RemoveNode(node) ==
    /\ bucket' = remove_node(bucket, node)
    /\ last' = Call("remove_node", node, bucket, TRUE, NoSplit(bucket))
    /\ UNCHANGED << config, level, id_vars, heap_vars >>

\* split takes &self: the bucket stays as it is and two children come back.
Split(overflow_checks) ==
    /\ last' = Call("split", NoNode, bucket, TRUE, split(bucket, overflow_checks))
    /\ UNCHANGED << config, bucket, level, id_vars, heap_vars >>

\* The caller replaces the bucket it split by the children and goes on with
\* one of them.
TakeChild(left) ==
    /\ last.op = "split"
    /\ ~ last.panicked
    /\ level < MaxLevel
    /\ bucket' = IF left THEN last.one ELSE last.two
    /\ last' = Call("take", NoNode, bucket, left, NoSplit(bucket))
    /\ level' = level + 1
    /\ UNCHANGED << config, id_vars, heap_vars >>

Next ==
    \/ \E node \in Nodes : AddNode(node)
    \/ \E node \in Nodes : RemoveNode(node)
    \/ \E overflow_checks \in BOOLEAN : Split(overflow_checks)
    \/ \E left \in BOOLEAN : TakeChild(left)

Spec == Init /\ [][Next]_vars

\* ------------------------------------------------- the methods of NodeId
\* The identifiers distance and leading_zeros are called on: first non-zero
\* byte at the front, in the middle, in the last four bytes, or nowhere.
IdInputs ==
    { NodeId_new(hi, lo) : hi \in {0, 1, 100, U128Max}, lo \in {0, 1, 15} }

\* The bucket of the other specifications, created and left alone.
BucketIdle ==
    /\ config = [ range_low |-> 0, range_upper |-> U128Max,
                  ksize |-> 1, replacement_node_factor |-> 0 ]
    /\ bucket = KBucket_new(0, U128Max, 1, 0)
    /\ last = Call("new", NoNode, bucket, TRUE, NoSplit(bucket))
    /\ level = 0

IdInit == BucketIdle /\ HeapIdle /\ id_call = NoIdCall

Distance(self, other) ==
    /\ id_call' = [ op |-> "distance", self |-> self, other |-> other,
                    ret |-> distance(self, other) ]
    /\ UNCHANGED << bucket_vars, heap_vars >>

LeadingZeros(self) ==
    /\ id_call' = [ op |-> "leading_zeros", self |-> self, other |-> << >>,
                    ret |-> leading_zeros(self) ]
    /\ UNCHANGED << bucket_vars, heap_vars >>

IdNext ==
    \/ \E self \in IdInputs, other \in IdInputs : Distance(self, other)
    \/ \E self \in IdInputs : LeadingZeros(self)

IdSpec == IdInit /\ [][IdNext]_vars

\* ------------------------------------------------ the methods of NodeHeap
HeapInit ==
    /\ BucketIdle
    /\ id_call = NoIdCall
    /\ lookup = NoLookup
    /\ \E node \in HeapReferences, max_size \in 1 .. MaxSize :
           /\ node_heap = NodeHeap_new(node, max_size)
           /\ heap_call = HeapCall("new", node_heap, << >>, {}, Option_None, Option_None)

Push(nodes) ==
    /\ node_heap' = push(node_heap, nodes)
    /\ heap_call' = HeapCall("push", node_heap, nodes, {}, Option_None, Option_None)
    /\ UNCHANGED << bucket_vars, id_vars, lookup >>

PushOne(node) ==
    /\ node_heap' = push_one(node_heap, node)
    /\ heap_call' = HeapCall("push_one", node_heap, << node >>, {}, Option_None, Option_None)
    /\ UNCHANGED << bucket_vars, id_vars, lookup >>

PopLeft ==
    \E i \in 1 .. (IF node_heap.heap = << >> THEN 1 ELSE Len(node_heap.heap)) :
        /\ node_heap.heap # << >> => is_greatest(node_heap.heap, i)
        /\ LET r == pop_left(node_heap, i)
           IN  /\ node_heap' = r.self
               /\ heap_call' = HeapCall("pop_left", node_heap, << >>, {}, r.ret,
                                          IF heap_call.op = "pop_left"
                                          THEN heap_call.ret ELSE Option_None)
        /\ UNCHANGED << bucket_vars, id_vars, lookup >>

Remove(peers) ==
    /\ node_heap' = remove(node_heap, peers)
    /\ heap_call' = HeapCall("remove", node_heap, << >>, peers, Option_None, Option_None)
    /\ UNCHANGED << bucket_vars, id_vars, lookup >>

MarkContacted(node) ==
    /\ node_heap' = mark_contacted(node_heap, node)
    /\ heap_call' = HeapCall("mark_contacted", node_heap, << node >>, {}, Option_None, Option_None)
    /\ UNCHANGED << bucket_vars, id_vars, lookup >>

Clear ==
    /\ node_heap' = clear(node_heap)
    /\ heap_call' = HeapCall("clear", node_heap, << >>, {}, Option_None, Option_None)
    /\ UNCHANGED << bucket_vars, id_vars, lookup >>

HeapNext ==
    \/ \E nodes \in Batches : Push(nodes)
    \/ \E node \in HeapNodes : PushOne(node)
    \/ PopLeft
    \/ \E peers \in SUBSET HeapNodeIds : Remove(peers)
    \/ \E node \in HeapNodes : MarkContacted(node)
    \/ Clear

HeapSpec == HeapInit /\ [][HeapNext]_vars

\* ------------------------------------------------------------ the lookup loop
\* The caller's loop over one heap: while some visible node is not
\* contacted it takes one of them and marks it, and between two steps it may
\* push, remove and pop; it never clears. The loop ends, and with it the
\* calls it makes, when it finds have_contacted_all. The record of the call
\* made last is not kept here.
MaxMarks == Cardinality(HeapNodeIds) + 1

LookupInit ==
    /\ BucketIdle
    /\ id_call = NoIdCall
    /\ lookup = [pc |-> "loop", marks |-> 0]
    /\ \E node \in HeapReferences, max_size \in 1 .. MaxSize :
           /\ node_heap = NodeHeap_new(node, max_size)
           /\ heap_call = HeapCall("new", node_heap, << >>, {}, Option_None, Option_None)

\* One turn of the loop. The count of mark_contacted calls is capped one
\* above the number of ids there are.
LookupStep ==
    /\ lookup.pc = "loop"
    /\ IF have_contacted_all(node_heap)
       THEN /\ node_heap' = node_heap
            /\ lookup' = [lookup EXCEPT !.pc = "done"]
       ELSE /\ lookup.marks < MaxMarks
            /\ \E i \in 1 .. Len(get_uncontacted(node_heap)) :
                   node_heap' = mark_contacted(node_heap, get_uncontacted(node_heap)[i])
            /\ lookup' = [lookup EXCEPT !.marks = @ + 1]
    /\ UNCHANGED << bucket_vars, id_vars, heap_call >>

LookupPush(nodes) ==
    /\ lookup.pc = "loop"
    /\ node_heap' = push(node_heap, nodes)
    /\ UNCHANGED << bucket_vars, id_vars, heap_call, lookup >>

LookupRemove(peers) ==
    /\ lookup.pc = "loop"
    /\ node_heap' = remove(node_heap, peers)
    /\ UNCHANGED << bucket_vars, id_vars, heap_call, lookup >>

LookupPopLeft ==
    /\ lookup.pc = "loop"
    /\ \E i \in 1 .. (IF node_heap.heap = << >> THEN 1 ELSE Len(node_heap.heap)) :
           /\ node_heap.heap # << >> => is_greatest(node_heap.heap, i)
           /\ node_heap' = pop_left(node_heap, i).self
    /\ UNCHANGED << bucket_vars, id_vars, heap_call, lookup >>

LookupNext ==
    \/ LookupStep
    \/ \E nodes \in Batches : LookupPush(nodes)
    \/ \E peers \in SUBSET HeapNodeIds : LookupRemove(peers)
    \/ LookupPopLeft

\* The loop is a thread of its own: while it has a turn to take it takes it.
LookupSpec == LookupInit /\ [][LookupNext]_vars /\ WF_vars(LookupStep)

\* ------------------------------------------------------- words of the claims
\* The capacity and the replacement bound the bucket was created with.
K == config.ksize
ReplacementBound == config.ksize * config.replacement_node_factor

Added == last.op = "add_node"
Removed == last.op = "remove_node"
SplitDone == last.op = "split" /\ ~ last.panicked

\* The bucket the caller holds and, after a split, the two children.
Buckets == {bucket} \cup (IF SplitDone THEN {last.one, last.two} ELSE {})

Held(b) == { b.nodes[i] : i \in 1 .. Len(b.nodes) }
               \cup { b.replacement_nodes[i] : i \in 1 .. Len(b.replacement_nodes) }

Count(b) == Len(b.nodes) + Len(b.replacement_nodes)

Without(map, node_id) == SelectSeq(map, LAMBDA n : n.id # node_id)

Last(map) == map[Len(map)]

IsSuffix(s, t) == \E j \in 0 .. Len(t) : s = SubSeq(t, j + 1, Len(t))

\* ------------------------------------------------------------------ claims

\* C1: after any sequence of add_node, remove_node and split, the bucket and
\* every child of a split hold at most k active peers and at most k*f
\* replacement peers, k and f being the arguments of KBucket::new.
C1_Capacity ==
    \A b \in Buckets :
        /\ Len(b.nodes) <= K
        /\ Len(b.replacement_nodes) <= ReplacementBound

\* An add_node into a bucket whose two sets were both at their bound, for a
\* peer in neither: one more entry would exceed the replacement bound.
C1_Witness ==
    /\ Added
    /\ K >= 1 /\ ReplacementBound >= 1
    /\ Len(last.pre.nodes) = K
    /\ Len(last.pre.replacement_nodes) = ReplacementBound
    /\ last.node.id \notin keys(last.pre.nodes) \cup keys(last.pre.replacement_nodes)

\* C2: no identifier is both in the active and in the replacement set of
\* one bucket, for the bucket held and for the children of a split.
C2_Disjoint ==
    \A b \in Buckets : keys(b.nodes) \cap keys(b.replacement_nodes) = {}

\* A remove_node of an active peer that promoted a replacement.
C2_Witness ==
    /\ Removed
    /\ contains_key(last.pre.nodes, last.node.id)
    /\ last.pre.replacement_nodes # << >>
    /\ contains_key(bucket.nodes, Head(last.pre.replacement_nodes).id)

\* C3 as claimed: add_node of a peer that is not active into a full bucket
\* returns false, leaves the active set as it was and leaves the peer last in
\* the replacement set; into a bucket with room it returns true and the peer
\* is the last active entry; so the (k+1)-th distinct peer of an empty bucket
\* gets false, with k active and 1 replacement.
C3_Original ==
    (Added /\ ~ contains_key(last.pre.nodes, last.node.id)) =>
        IF Len(last.pre.nodes) >= last.pre.ksize
        THEN /\ last.ret = FALSE
             /\ bucket.nodes = last.pre.nodes
             /\ bucket.replacement_nodes # << >>
             /\ Last(bucket.replacement_nodes) = last.node
             /\ (last.pre.replacement_nodes = << >> =>
                    /\ Len(bucket.nodes) = K
                    /\ Len(bucket.replacement_nodes) = 1)
        ELSE /\ last.ret = TRUE
             /\ bucket.nodes = Append(last.pre.nodes, last.node)

\* C3 as amended: the peer is retained only when the replacement bound k*f is
\* at least 1; with a bound of 0 the replacement set stays empty and the peer
\* is dropped.  The rest is as claimed, the replacement count after k+1
\* distinct peers being min(1, k*f).
C3_Amended ==
    (Added /\ ~ contains_key(last.pre.nodes, last.node.id)) =>
        IF Len(last.pre.nodes) >= last.pre.ksize
        THEN /\ last.ret = FALSE
             /\ bucket.nodes = last.pre.nodes
             /\ IF ReplacementBound >= 1
                THEN /\ bucket.replacement_nodes # << >>
                     /\ Last(bucket.replacement_nodes) = last.node
                ELSE bucket.replacement_nodes = << >>
             /\ (last.pre.replacement_nodes = << >> =>
                    /\ Len(bucket.nodes) = K
                    /\ Len(bucket.replacement_nodes)
                           = IF ReplacementBound >= 1 THEN 1 ELSE 0)
        ELSE /\ last.ret = TRUE
             /\ bucket.nodes = Append(last.pre.nodes, last.node)

\* The (k+1)-th distinct peer arriving at a bucket with k >= 1 active peers,
\* an empty replacement set and a replacement bound of at least 1.
C3_Witness ==
    /\ Added
    /\ K >= 1 /\ ReplacementBound >= 1
    /\ Len(last.pre.nodes) = K
    /\ last.pre.replacement_nodes = << >>
    /\ ~ contains_key(last.pre.nodes, last.node.id)
    /\ last.ret = FALSE
    /\ bucket.replacement_nodes = << last.node >>

\* C4: add_node of a peer whose identifier is active returns true, leaves
\* the active count and the replacement set as they were, stores the value
\* handed in (its address included) and moves the peer to the last active
\* position, the other active peers keeping their order.
C4_Readd ==
    (Added /\ contains_key(last.pre.nodes, last.node.id)) =>
        /\ last.ret = TRUE
        /\ Len(bucket.nodes) = Len(last.pre.nodes)
        /\ bucket.replacement_nodes = last.pre.replacement_nodes
        /\ Last(bucket.nodes) = last.node
        /\ Without(bucket.nodes, last.node.id) = Without(last.pre.nodes, last.node.id)

\* The oldest active peer of a full bucket with a replacement waiting comes
\* again from another address.
C4_Witness ==
    /\ Added
    /\ Len(last.pre.nodes) = K /\ K >= 2
    /\ last.pre.replacement_nodes # << >>
    /\ Head(last.pre.nodes).id = last.node.id
    /\ Head(last.pre.nodes).ip # last.node.ip
    /\ Last(bucket.nodes) = last.node

\* C5: remove_node of an active peer p.  With replacements left once p is
\* dropped from them: p is in neither set, the oldest replacement is active,
\* the active count is as before, the replacement count is one less and the
\* other replacements keep their order.  With none left: one active peer less.
C5_Promote ==
    (Removed /\ contains_key(last.pre.nodes, last.node.id)) =>
        LET rest == Without(last.pre.replacement_nodes, last.node.id)
        IN  /\ last.node.id \notin keys(bucket.nodes) \cup keys(bucket.replacement_nodes)
            /\ IF rest # << >>
               THEN /\ Head(rest) \in Held([bucket EXCEPT !.replacement_nodes = << >>])
                    /\ Len(bucket.nodes) = Len(last.pre.nodes)
                    /\ Len(bucket.replacement_nodes)
                           = Len(last.pre.replacement_nodes) - 1
                    /\ bucket.replacement_nodes = Tail(rest)
               ELSE Len(bucket.nodes) = Len(last.pre.nodes) - 1

\* An active peer removed while two or more replacements were waiting.
C5_Witness ==
    /\ Removed
    /\ contains_key(last.pre.nodes, last.node.id)
    /\ Len(last.pre.replacement_nodes) >= 2
    /\ Last(bucket.nodes) = Head(last.pre.replacement_nodes)

\* C6: remove_node of a peer in neither set leaves the bucket as it was,
\* range included; of a peer in the replacement set only, it deletes the
\* peer there and leaves the active set as it was.
C6_RemoveFrame ==
    (Removed /\ ~ contains_key(last.pre.nodes, last.node.id)) =>
        IF contains_key(last.pre.replacement_nodes, last.node.id)
        THEN /\ bucket.nodes = last.pre.nodes
             /\ bucket.replacement_nodes
                    = Without(last.pre.replacement_nodes, last.node.id)
             /\ ~ contains_key(bucket.replacement_nodes, last.node.id)
        ELSE bucket = last.pre

\* A peer removed that was the older of two replacements.
C6_Witness ==
    /\ Removed
    /\ ~ contains_key(last.pre.nodes, last.node.id)
    /\ Len(last.pre.replacement_nodes) >= 2
    /\ Head(last.pre.replacement_nodes).id = last.node.id
    /\ Len(bucket.replacement_nodes) = Len(last.pre.replacement_nodes) - 1

\* C7: split of a bucket [low, high] gives a left child [low, mid] and a
\* right child [mid + 1, high] with mid = (low + high) / 2, both with the
\* capacity and the replacement bound of the parent; for the bucket of the
\* whole space and for every child got by splitting again.
C7_SplitRanges ==
    last.op = "split" =>
        LET mid == (last.pre.rstart + last.pre.rend) \div 2
        IN  /\ ~ last.panicked
            /\ last.one.rstart = last.pre.rstart /\ last.one.rend = mid
            /\ last.two.rstart = mid + 1 /\ last.two.rend = last.pre.rend
            /\ last.one.ksize = K /\ last.two.ksize = K
            /\ last.one.max_replacement_nodes = ReplacementBound
            /\ last.two.max_replacement_nodes = ReplacementBound

\* C8: split hands every peer of the parent, active or replacement, to
\* exactly one child, hands the children nothing else, and leaves the parent
\* as it was.
C8_Redistribute ==
    SplitDone =>
        /\ Held(last.one) \cup Held(last.two) = Held(last.pre)
        /\ { n.id : n \in Held(last.one) } \cap { n.id : n \in Held(last.two) } = {}
        /\ Count(last.one) + Count(last.two) = Count(last.pre)
        /\ bucket = last.pre

\* A parent with both sets at their bound whose peers all went to one child.
C8_Witness ==
    /\ SplitDone
    /\ ReplacementBound >= 2
    /\ Len(last.pre.nodes) = K
    /\ Len(last.pre.replacement_nodes) = ReplacementBound
    /\ Count(last.one) = 0 \/ Count(last.two) = 0

\* C9 as claimed: after split every peer a child holds is in the range of
\* that child, whatever add_node and remove_node calls made the parent.
C9_Original ==
    SplitDone =>
        /\ \A n \in Held(last.one) : has_in_range(last.one, n)
        /\ \A n \in Held(last.two) : has_in_range(last.two, n)

\* C9 as amended: it holds for a parent whose peers are all in the range of
\* the parent; add_node does not look at the range, and a peer outside the
\* range of the parent is outside the range of the child it goes to.
C9_Amended ==
    (SplitDone /\ \A n \in Held(last.pre) : has_in_range(last.pre, n)) =>
        /\ \A n \in Held(last.one) : has_in_range(last.one, n)
        /\ \A n \in Held(last.two) : has_in_range(last.two, n)

\* A parent holding peers of its range, one of them at the midpoint, split
\* into two children that both got some.
C9_Witness ==
    /\ SplitDone
    /\ \A n \in Held(last.pre) : has_in_range(last.pre, n)
    /\ \E n \in Held(last.one) : node_id_to_u128(n.id) = last.one.rend
    /\ Count(last.two) >= 1

\* C10 as claimed: a peer new to a full bucket whose replacement set is at
\* its bound stays, last, and the oldest replacements go; a peer already in
\* the replacement set of a full bucket moves to its end, the count as it
\* was and nothing else gone.
C10_Original ==
    (/\ Added
     /\ ~ contains_key(last.pre.nodes, last.node.id)
     /\ Len(last.pre.nodes) >= last.pre.ksize) =>
        IF contains_key(last.pre.replacement_nodes, last.node.id)
        THEN bucket.replacement_nodes
                 = Append(Without(last.pre.replacement_nodes, last.node.id), last.node)
        ELSE Len(last.pre.replacement_nodes) + 1 > ReplacementBound =>
                 /\ bucket.replacement_nodes # << >>
                 /\ Last(bucket.replacement_nodes) = last.node
                 /\ Len(bucket.replacement_nodes) = ReplacementBound
                 /\ IsSuffix(bucket.replacement_nodes,
                             Append(last.pre.replacement_nodes, last.node))

\* C10 as amended: the new peer stays when the bound k*f is at least 1; with
\* a bound of 0 the new peer is itself the oldest entry and is the one evicted.
C10_Amended ==
    (/\ Added
     /\ ~ contains_key(last.pre.nodes, last.node.id)
     /\ Len(last.pre.nodes) >= last.pre.ksize) =>
        IF contains_key(last.pre.replacement_nodes, last.node.id)
        THEN bucket.replacement_nodes
                 = Append(Without(last.pre.replacement_nodes, last.node.id), last.node)
        ELSE Len(last.pre.replacement_nodes) + 1 > ReplacementBound =>
                 /\ Len(bucket.replacement_nodes) = ReplacementBound
                 /\ IsSuffix(bucket.replacement_nodes,
                             Append(last.pre.replacement_nodes, last.node))
                 /\ IF ReplacementBound >= 1
                    THEN Last(bucket.replacement_nodes) = last.node
                    ELSE bucket.replacement_nodes = << >>

\* A new peer arriving at a full bucket with two replacements, its bound:
\* the older one goes, the newer one and the new peer stay in that order.
C10_Witness ==
    /\ Added
    /\ ReplacementBound >= 2
    /\ Len(last.pre.replacement_nodes) = ReplacementBound
    /\ last.node.id \notin keys(last.pre.nodes) \cup keys(last.pre.replacement_nodes)
    /\ bucket.replacement_nodes = Append(Tail(last.pre.replacement_nodes), last.node)

\* C17: distance(a, b) = distance(b, a); distance(a, b) is the all-zero
\* identifier exactly when a = b; leading_zeros is between 0 and the number
\* of bits of an identifier, and is that number for the all-zero identifier.
C17_DistanceLaws ==
    /\ id_call.op = "distance" =>
           /\ id_call.ret = distance(id_call.other, id_call.self)
           /\ (id_call.ret = NodeId_new(0, 0)) <=> (id_call.self = id_call.other)
           /\ Len(id_call.ret) = IdLen
    /\ id_call.op = "leading_zeros" =>
           /\ id_call.ret \in 0 .. IdBits
           /\ (id_call.self = NodeId_new(0, 0)) => id_call.ret = IdBits

\* The distance of two identifiers that differ in both directions: each has
\* a non-zero byte where the other has a zero one.
C17_Witness ==
    /\ id_call.op = "distance"
    /\ \E i, j \in 1 .. IdLen :
           /\ id_call.self[i] > id_call.other[i]
           /\ id_call.self[j] < id_call.other[j]
    /\ id_call.ret # NodeId_new(0, 0)

\* C18: in the bucket held and in every child of a split, a replacement
\* set that is not empty goes with an active set that is full.
C18_NoFreeSlot ==
    \A b \in Buckets :
        b.replacement_nodes # << >> => Len(b.nodes) = b.ksize /\ b.ksize = K

\* An active peer removed from a full bucket with two replacements: one is
\* promoted, one still waits.
C18_Witness ==
    /\ Removed
    /\ contains_key(last.pre.nodes, last.node.id)
    /\ Len(last.pre.replacement_nodes) >= 2
    /\ bucket.replacement_nodes # << >>
    /\ Len(bucket.nodes) = K

\* --------------------------------------------------- words of the heap claims
Min(a, b) == IF a < b THEN a ELSE b

Range(seq) == { seq[i] : i \in 1 .. Len(seq) }

\* The XOR distance of a node to the reference node of the heap.
ToReference(self, node) == distance(self.node.id, node.id)

\* The entries of the internal collection with fewer than max_size entries
\* strictly nearer to the reference, and their nodes.
ClosestEntries(self) ==
    { e \in Range(self.heap) :
        Cardinality({ j \in 1 .. Len(self.heap) :
                        NodeId_lt(ToReference(self, self.heap[j].node),
                                  ToReference(self, e.node)) }) < self.max_size }

ClosestNodes(self) == { e.node : e \in ClosestEntries(self) }

\* view lists nodes in ascending distance to the reference, none twice.
Ascending(self, view) ==
    \A i, j \in 1 .. Len(view) :
        i < j => NodeId_lt(ToReference(self, view[i]), ToReference(self, view[j]))

Pushed == heap_call.op \in {"push", "push_one"}
Popped == heap_call.op = "pop_left"
HeapRemoved == heap_call.op = "remove"
Marked == heap_call.op = "mark_contacted"
Cleared == heap_call.op = "clear"

StoredIds(self) == { e.node.id : e \in Range(self.heap) }

\* C11: the visible view is the min(actual_size, max_size) entries nearest
\* to the reference, in ascending distance; len is min(actual_size,
\* max_size) and never more than max_size.
C11_VisibleView ==
    LET view == iter(node_heap)
    IN  /\ Len(view) = Min(actual_size(node_heap), node_heap.max_size)
        /\ Range(view) = ClosestNodes(node_heap)
        /\ Ascending(node_heap, view)
        /\ to_vec(node_heap) = view
        /\ get_ids(node_heap) = [i \in 1 .. Len(view) |-> view[i].id]
        /\ len(node_heap) = Min(actual_size(node_heap), node_heap.max_size)
        /\ len(node_heap) <= node_heap.max_size

\* Three nodes pushed into a heap of bound 2, the nearest of them last.
C11_Witness ==
    /\ Pushed
    /\ node_heap.max_size = 2
    /\ actual_size(node_heap) = 3
    /\ len(node_heap) = 2
    /\ Head(iter(node_heap)) = node_heap.heap[3].node

\* C12: pop_left on an empty heap returns None and changes nothing; else it
\* returns the node of an entry none is nearer than, the first of the sorted
\* view, and takes that entry and no other out; two pop_left calls in a row
\* return nodes of non-decreasing distance.
C12_PopClosest ==
    Popped =>
        LET pre == heap_call.pre
            ret == heap_call.ret
            prior == heap_call.prior
        IN  IF pre.heap = << >>
            THEN ret = Option_None /\ node_heap = pre
            ELSE /\ ret = Some(Head(iter(pre)))
                 /\ \A e \in Range(pre.heap) :
                        ~ NodeId_lt(ToReference(pre, e.node),
                                    ToReference(pre, ret[1]))
                 /\ actual_size(node_heap) = actual_size(pre) - 1
                 /\ Range(node_heap.heap)
                        = { e \in Range(pre.heap) : e.node # ret[1] }
                 /\ node_heap.contacted = pre.contacted
                 /\ prior # Option_None =>
                        ~ NodeId_lt(ToReference(pre, ret[1]),
                                    ToReference(pre, prior[1]))

\* The second of two pop_left calls in a row, on a heap whose nearest entry
\* was not the one that came in first.
C12_Witness ==
    /\ Popped
    /\ heap_call.prior # Option_None
    /\ heap_call.ret # Option_None
    /\ heap_call.ret # Some(Head(heap_call.pre.heap).node)
    /\ NodeId_lt(ToReference(node_heap, heap_call.prior[1]),
                 ToReference(node_heap, heap_call.ret[1]))

\* C13: no two entries of the internal collection have one id; push leaves
\* the entries it found as they were, adds one entry for each id of the
\* batch that was not there, the first node of the batch with that id, and
\* adds nothing for an id that was there, visible or hidden.
C13_NoDuplicates ==
    /\ \A i, j \in 1 .. Len(node_heap.heap) :
           i # j => node_heap.heap[i].node.id # node_heap.heap[j].node.id
    /\ Pushed =>
           LET pre == heap_call.pre
               batch == heap_call.nodes
               fresh == { batch[i].id : i \in 1 .. Len(batch) } \ StoredIds(pre)
           IN  /\ SubSeq(node_heap.heap, 1, Len(pre.heap)) = pre.heap
               /\ actual_size(node_heap) = actual_size(pre) + Cardinality(fresh)
               /\ \A i \in 1 .. Len(batch) :
                      /\ contains(node_heap, batch[i])
                      /\ (batch[i].id \in fresh
                             /\ \A j \in 1 .. i - 1 : batch[j].id # batch[i].id)
                         => get_node(node_heap, batch[i].id) = Some(batch[i])

\* A batch of the same node twice, under another address than the one its
\* id is stored with, hidden beyond the bound.
C13_Witness ==
    /\ heap_call.op = "push"
    /\ Len(heap_call.nodes) = 2
    /\ heap_call.nodes[1].id = heap_call.nodes[2].id
    /\ contains(heap_call.pre, heap_call.nodes[1])
    /\ heap_call.nodes[1] \notin Range(iter(heap_call.pre))
    /\ get_node(heap_call.pre, heap_call.nodes[1].id) # Some(heap_call.nodes[1])
    /\ actual_size(heap_call.pre) > heap_call.pre.max_size
    /\ node_heap = heap_call.pre

\* C14: mark_contacted adds the id of the node to the contacted set and
\* changes nothing else, so the node is found by get_node and contains as
\* before; get_uncontacted is the visible list without the nodes whose id is
\* contacted, in the same order; have_contacted_all holds exactly when that
\* list is empty.
C14_Contacted ==
    /\ Marked =>
           LET pre == heap_call.pre
               node == heap_call.nodes[1]
           IN  /\ node_heap.heap = pre.heap
               /\ node_heap.contacted = pre.contacted \cup {node.id}
               /\ node_heap.max_size = pre.max_size
               /\ node_heap.node = pre.node
               /\ to_vec(node_heap) = to_vec(pre)
               /\ \A p \in HeapNodes :
                      /\ contains(node_heap, p) = contains(pre, p)
                      /\ get_node(node_heap, p.id) = get_node(pre, p.id)
    /\ LET uncontacted == get_uncontacted(node_heap)
           expected == { n \in ClosestNodes(node_heap) :
                           n.id \notin node_heap.contacted }
       IN  /\ Range(uncontacted) = expected
           /\ Ascending(node_heap, uncontacted)
           /\ have_contacted_all(node_heap) <=> expected = {}

\* The only visible node of a heap is marked: every visible node is
\* contacted, while a hidden node that is not contacted is still stored.
C14_Witness ==
    /\ Marked
    /\ heap_call.nodes[1] \in Range(to_vec(heap_call.pre))
    /\ ~ have_contacted_all(heap_call.pre)
    /\ have_contacted_all(node_heap)
    /\ contains(node_heap, heap_call.nodes[1])
    /\ \E e \in Range(node_heap.heap) : e.node.id \notin node_heap.contacted

\* C15: remove(S) leaves exactly the entries whose id is not in S, visible
\* or hidden, changes nothing for an empty S, and the visible size
\* afterwards is min(entries left, max_size).
C15_Remove ==
    HeapRemoved =>
        LET pre == heap_call.pre
            S == heap_call.peers
            left == { e \in Range(pre.heap) : e.node.id \notin S }
        IN  /\ Range(node_heap.heap) = left
            /\ actual_size(node_heap) = Cardinality(left)
            /\ S = {} => node_heap = pre
            /\ node_heap.contacted = pre.contacted
            /\ node_heap.max_size = pre.max_size
            /\ node_heap.node = pre.node
            /\ len(node_heap) = Min(Cardinality(left), pre.max_size)

\* A visible node is removed from a heap holding more than max_size
\* entries: the visible size stays and a hidden node becomes visible.
C15_Witness ==
    /\ HeapRemoved
    /\ actual_size(heap_call.pre) > heap_call.pre.max_size
    /\ \E n \in Range(to_vec(heap_call.pre)) : n.id \in heap_call.peers
    /\ len(node_heap) = len(heap_call.pre)
    /\ \E n \in Range(to_vec(node_heap)) : n \notin Range(to_vec(heap_call.pre))

\* C16 as stated: contains(p) is true and get_node(p.id) returns p exactly
\* when p is one of the nodes of to_vec().
C16_Original ==
    \A p \in HeapNodes :
        (contains(node_heap, p) /\ get_node(node_heap, p.id) = Some(p))
            <=> p \in Range(to_vec(node_heap))

\* C16: contains(p) is true exactly when the id of p is stored in the
\* internal collection, visible or hidden, and get_node(p.id) returns the
\* node stored with that id, None when there is none; every node of
\* to_vec() is found by both.
C16_Amended ==
    \A p \in HeapNodes :
        /\ contains(node_heap, p) <=> p.id \in StoredIds(node_heap)
        /\ get_node(node_heap, p.id) = Some(p)
               <=> \E e \in Range(node_heap.heap) : e.node = p
        /\ get_node(node_heap, p.id) = Option_None <=> ~ contains(node_heap, p)
        /\ p \in Range(to_vec(node_heap))
               => contains(node_heap, p) /\ get_node(node_heap, p.id) = Some(p)

\* A node hidden beyond max_size that contains and get_node find.
C16_Witness ==
    \E p \in HeapNodes :
        /\ contains(node_heap, p)
        /\ get_node(node_heap, p.id) = Some(p)
        /\ p \notin Range(to_vec(node_heap))

\* C19: pop_left, remove, push and push_one leave the contacted set as it
\* was, mark_contacted adds the one id, clear and new leave it empty; no
\* node of get_uncontacted has a contacted id, a node pushed again after it
\* was contacted and taken out included.
C19_ContactedFrame ==
    /\ (Popped \/ HeapRemoved \/ Pushed)
           => node_heap.contacted = heap_call.pre.contacted
    /\ Marked => node_heap.contacted
                     = heap_call.pre.contacted \cup {heap_call.nodes[1].id}
    /\ (Cleared \/ heap_call.op = "new") => node_heap.contacted = {}
    /\ \A n \in Range(to_vec(node_heap)) :
           n.id \in node_heap.contacted
               => n \notin Range(get_uncontacted(node_heap))

\* A node whose id is contacted and that is not stored is pushed: it is
\* visible and not among the uncontacted nodes.
C19_Witness ==
    /\ Pushed
    /\ \E i \in 1 .. Len(heap_call.nodes) :
           LET n == heap_call.nodes[i]
           IN  /\ n.id \in heap_call.pre.contacted
               /\ ~ contains(heap_call.pre, n)
               /\ n \in Range(to_vec(node_heap))
               /\ n \notin Range(get_uncontacted(node_heap))

\* C20: the lookup loop calls mark_contacted at most once for each id there
\* is, and from some point on have_contacted_all holds for good.
C20_LookupEnds ==
    /\ [](lookup.marks <= Cardinality(HeapNodeIds))
    /\ <>[]have_contacted_all(node_heap)

\* The loop has ended after it marked every id there is, a node that was
\* taken out after it was marked and pushed again among them.
C20_Witness ==
    /\ lookup.pc = "done"
    /\ lookup.marks = Cardinality(HeapNodeIds)
    /\ node_heap.contacted = HeapNodeIds
    /\ actual_size(node_heap) > len(node_heap)
    /\ have_contacted_all(node_heap)

TypeOK ==
    /\ bucket.rstart \in 0 .. U128Max
    /\ bucket.rend \in 0 .. U128Max
    /\ level \in 0 .. MaxLevel

====
